---- MODULE Spec2Model ----
(***************************************************************************)
(* Model of aim/interface.py (PF3D): the parallel wind-field scheduler     *)
(* run_multiple_windfields, the wind-profile stitcher                      *)
(* join_sorted_windprofiles / join_wind_profiles and the in-place patcher  *)
(* set_vent_location_in_windfield.                                         *)
(***************************************************************************)
EXTENDS Integers, Sequences, FiniteSets, TLC

\* ------------------------------------------------------------------------
\* Bounds of the model
\* ------------------------------------------------------------------------
MaxP == 2          \* largest group size P
MaxN == 3          \* longest directory listing
MaxStamp == 2      \* distinct time stamps build_output_dir may produce

VARIABLES
    \* --- scheduler (run_scenario / run_multiple_windfields) ---
    pyparOK,               \* TRUE iff "import pypar" succeeded
    eager,                 \* TRUE iff the MPI standard-mode send buffers the message
    P,                     \* group size
    listing,               \* os.listdir(windfield_directory): TRUE = name ends with .profile
    multiple_output_dir,   \* per rank: the directory name run_scenario built (0 = not yet)
    pc,                    \* per rank: position in the code
    hazard_output_folder,  \* per rank: local variable of that name (0 = not yet computed)
    logdirs,               \* shared filesystem: output folders whose logs directory exists
    chan,                  \* per destination rank: messages sent by rank 0, not yet received
    sent,                  \* sequence of destinations of the sends performed so far
    nbar,                  \* per rank: number of barrier calls entered
    idx,                   \* per rank: loop index i
    sendi,                 \* loop index of the broadcast loop of rank 0
    count_local,           \* per rank
    count_all,             \* per rank
    assigned,              \* set of <<i, p>>: index i passed the test i%P == p on rank p
    ran,                   \* sequence of <<i, p>>: calls of _run_scenario for unit i by rank p
    scratch,               \* shared filesystem: scratch output dirs <<i, p>> that exist
    artifacts,             \* shared filesystem: <<folder, i>> result files copied
    prjCopies,             \* sequence of <<folder, p>>: projection file copies performed
    wrote,                 \* set of <<p, folder>>: rank p wrote below folder
    reported,              \* per rank: count printed by the final report (-1 = none)
    finalized,             \* per rank: pypar.finalize() executed
    \* --- join_wind_profiles ---
    dirlist,               \* os.listdir(windfield_directory): sequence of file names
    seconds,               \* list of the time stamps found so far
    wind_data_dict,        \* dictionary time stamp -> file name
    jk,                    \* position of the scan in dirlist
    jpc,                   \* position in join_wind_profiles
    \* --- join_sorted_windprofiles ---
    disk,                  \* file system: path -> content (sequence of lines)
    wind_data_files,       \* argument: ordered sequence of paths
    outfile,               \* lines written to the output file so far
    first_file,
    seconds_start,
    seconds_end,
    num_layers,
    sk,                    \* position of the loop in wind_data_files
    spc,                   \* position in join_sorted_windprofiles
    \* --- set_vent_location_in_windfield ---
    pfile,                 \* content of the patched file as an outside reader sees it
    pold,                  \* content of the file when the call started
    pargs,                 \* <<vent_location_easting, vent_location_northing>>
    lines,                 \* local variable lines
    pbuf,                  \* lines written to fid, not yet flushed to the file
    pk,                    \* position of the write loop
    ppc,                   \* position in the patcher
    pfunc,                 \* "vent": set_vent_location..., "time": set_timeblocks...
    pname,                 \* basename[-2:]: the last two characters of the base name
    ptime,                 \* <<startsec, endsec>>
    \* ---- parameter expander (_run_scenario / run_scenario recursion)
    einput,                \* the mapping given to the outermost call
    estack,                \* the active calls of _run_scenario, innermost last
    eruns,                 \* the AIM objects instantiated so far, in order
    epc                    \* "idle", "run" or "done"

schedVars == <<pyparOK, eager, P, listing, multiple_output_dir, pc, hazard_output_folder, logdirs, chan,
               sent, nbar, idx, sendi, count_local, count_all, assigned, ran, scratch,
               artifacts, prjCopies, wrote, reported, finalized>>

dirVars == <<dirlist, seconds, wind_data_dict, jk, jpc>>

stitchVars == <<disk, wind_data_files, outfile, first_file, seconds_start, seconds_end,
                num_layers, sk, spc>>

patchVars == <<pfile, pold, pargs, lines, pbuf, pk, ppc, pfunc, pname, ptime>>

expandVars == <<einput, estack, eruns, epc>>
nonSchedVars == <<dirVars, stitchVars, patchVars, expandVars>>

vars == <<schedVars, dirVars, stitchVars, patchVars, expandVars>>

\* ------------------------------------------------------------------------
\* Scheduler
\* ------------------------------------------------------------------------
AllRanks == 0 .. (MaxP - 1)
Ranks == 0 .. (P - 1)
Stamps == 1 .. MaxStamp
N == Len(listing)

RECURSIVE SeqsUpTo(_, _)
SeqsUpTo(S, n) ==
    IF n = 0 THEN {<<>>}
    ELSE LET shorter == SeqsUpTo(S, n - 1)
         IN  shorter \cup {Append(s, x) : s \in {t \in shorter : Len(t) = n - 1}, x \in S}

Listings == SeqsUpTo(BOOLEAN, MaxN)

SchedInit ==
    /\ pyparOK \in BOOLEAN
    /\ eager \in (IF pyparOK THEN BOOLEAN ELSE {TRUE})
    /\ P \in (IF pyparOK THEN 1 .. MaxP ELSE {1})
    /\ listing \in Listings
    /\ multiple_output_dir = [r \in AllRanks |-> 0]
    /\ pc = [r \in AllRanks |-> IF r < P THEN "run_scenario" ELSE "absent"]
    /\ hazard_output_folder = [r \in AllRanks |-> 0]
    /\ logdirs = {}
    /\ chan = [r \in AllRanks |-> <<>>]
    /\ sent = <<>>
    /\ nbar = [r \in AllRanks |-> 0]
    /\ idx = [r \in AllRanks |-> 0]
    /\ sendi = 0
    /\ count_local = [r \in AllRanks |-> 0]
    /\ count_all = [r \in AllRanks |-> 0]
    /\ assigned = {}
    /\ ran = <<>>
    /\ scratch = {}
    /\ artifacts = {}
    /\ prjCopies = <<>>
    /\ wrote = {}
    /\ reported = [r \in AllRanks |-> -1]
    /\ finalized = [r \in AllRanks |-> FALSE]

\* run_scenario: every process builds its own time-stamped output directory
\* name and passes it to run_multiple_windfields.
RunScenario(p) ==
    /\ pc[p] = "run_scenario"
    /\ \E t \in Stamps :
          /\ multiple_output_dir' = [multiple_output_dir EXCEPT ![p] = t]
          /\ hazard_output_folder' = [hazard_output_folder EXCEPT ![p] = t]
    /\ pc' = [pc EXCEPT ![p] = "import"]
    /\ UNCHANGED <<nonSchedVars, pyparOK, eager, P, listing, logdirs, chan, sent, nbar, idx, sendi,
                   count_local, count_all, assigned, ran, scratch, artifacts, prjCopies,
                   wrote, reported, finalized>>

\* try: import pypar ... except: P = 1; p = 0 ... else: ... pypar.barrier()
ImportPypar(p) ==
    /\ pc[p] = "import"
    /\ IF pyparOK
       THEN /\ nbar' = [nbar EXCEPT ![p] = @ + 1]
            /\ pc' = [pc EXCEPT ![p] = "barrier_join"]
       ELSE /\ pc' = [pc EXCEPT ![p] = "branch"]
            /\ UNCHANGED nbar
    /\ UNCHANGED <<nonSchedVars, pyparOK, eager, P, listing, multiple_output_dir, hazard_output_folder, logdirs, chan, sent,
                   idx, sendi, count_local, count_all, assigned, ran, scratch, artifacts,
                   prjCopies, wrote, reported, finalized>>

\* Mutant of BarrierOpen: a barrier that does not wait for a dead rank
BarrierOpenAmongLive(p) ==
    \A q \in Ranks : nbar[q] >= nbar[p] \/ pc[q] = "engine_failed"

\* A barrier call returns once every rank of the group has entered that
\* same barrier call (its k-th).
BarrierOpen(p) == \A q \in Ranks : nbar[q] >= nbar[p]

BarrierJoin(p) ==
    /\ pc[p] = "barrier_join"
    /\ BarrierOpen(p)
    /\ pc' = [pc EXCEPT ![p] = "branch"]
    /\ UNCHANGED <<nonSchedVars, pyparOK, eager, P, listing, multiple_output_dir, hazard_output_folder, logdirs, chan, sent,
                   nbar, idx, sendi, count_local, count_all, assigned, ran, scratch, artifacts,
                   prjCopies, wrote, reported, finalized>>

\* if p == 0: makedir(logdir) ... else: receive
Branch(p) ==
    /\ pc[p] = "branch"
    /\ IF p = 0
       THEN /\ logdirs' = logdirs \cup {hazard_output_folder[p]}
            /\ wrote' = wrote \cup {<<p, hazard_output_folder[p]>>}
            /\ pc' = [pc EXCEPT ![p] = "send"]
       ELSE /\ pc' = [pc EXCEPT ![p] = "receive"]
            /\ UNCHANGED <<logdirs, wrote>>
    /\ UNCHANGED <<nonSchedVars, pyparOK, eager, P, listing, multiple_output_dir, hazard_output_folder, chan, sent, nbar, idx,
                   sendi, count_local, count_all, assigned, ran, scratch, artifacts, prjCopies,
                   reported, finalized>>

\* Destinations of the broadcast loop: for i in range(P)
SendTargets == 0 .. (P - 1)

\* for i in range(P): pypar.send((hazard_output_folder), i)
\* Without pypar the name is unbound and the first send raises.
\* A standard-mode send returns when the message is buffered (eager) or when
\* the destination has posted the matching receive.
Send(p) ==
    /\ pc[p] = "send"
    /\ IF sendi \notin SendTargets
       THEN /\ nbar' = [nbar EXCEPT ![p] = @ + 1]
            /\ pc' = [pc EXCEPT ![p] = "barrier_start"]
            /\ UNCHANGED <<chan, sent, sendi>>
       ELSE IF ~pyparOK
       THEN /\ pc' = [pc EXCEPT ![p] = "name_error"]
            /\ UNCHANGED <<chan, sent, sendi, nbar>>
       ELSE /\ eager \/ pc[sendi] = "receive"
            /\ chan' = [chan EXCEPT ![sendi] = Append(@, hazard_output_folder[p])]
            /\ sent' = Append(sent, sendi)
            /\ sendi' = sendi + 1
            /\ UNCHANGED <<pc, nbar>>
    /\ UNCHANGED <<nonSchedVars, pyparOK, eager, P, listing, multiple_output_dir, hazard_output_folder, logdirs, idx,
                   count_local, count_all, assigned, ran, scratch, artifacts, prjCopies,
                   wrote, reported, finalized>>

\* Mutant of Received: the received value is dropped, the rank keeps its own
ReceivedDropped(p) == hazard_output_folder[p]

\* The value pypar.receive(0) returns on rank p: the oldest pending message.
Received(p) == Head(chan[p])

\* hazard_output_folder = pypar.receive(0); then pypar.barrier()
Receive(p) ==
    /\ pc[p] = "receive"
    /\ chan[p] # <<>>
    /\ hazard_output_folder' = [hazard_output_folder EXCEPT ![p] = Received(p)]
    /\ chan' = [chan EXCEPT ![p] = Tail(@)]
    /\ nbar' = [nbar EXCEPT ![p] = @ + 1]
    /\ pc' = [pc EXCEPT ![p] = "barrier_start"]
    /\ UNCHANGED <<nonSchedVars, pyparOK, eager, P, listing, multiple_output_dir, logdirs, sent, idx, sendi, count_local,
                   count_all, assigned, ran, scratch, artifacts, prjCopies, wrote, reported,
                   finalized>>

\* Mutant of BarrierStart: the call returns without waiting for the group
BarrierStartNoWait(p) ==
    /\ pc[p] = "barrier_start"
    /\ pc' = [pc EXCEPT ![p] = "logging"]
    /\ UNCHANGED <<nonSchedVars, pyparOK, eager, P, listing, multiple_output_dir, hazard_output_folder, logdirs, chan, sent,
                   nbar, idx, sendi, count_local, count_all, assigned, ran, scratch, artifacts,
                   prjCopies, wrote, reported, finalized>>

\* pypar.barrier()  # Wait until log dir has been created
BarrierStart(p) ==
    /\ pc[p] = "barrier_start"
    /\ BarrierOpen(p)
    /\ pc' = [pc EXCEPT ![p] = "logging"]
    /\ UNCHANGED <<nonSchedVars, pyparOK, eager, P, listing, multiple_output_dir, hazard_output_folder, logdirs, chan, sent,
                   nbar, idx, sendi, count_local, count_all, assigned, ran, scratch, artifacts,
                   prjCopies, wrote, reported, finalized>>

\* time.sleep(2*p); start_logging(filename=logdir/P<p>.log)
StartLogging(p) ==
    /\ pc[p] = "logging"
    /\ wrote' = wrote \cup {<<p, hazard_output_folder[p]>>}
    /\ pc' = [pc EXCEPT ![p] = "loop"]
    /\ UNCHANGED <<nonSchedVars, pyparOK, eager, P, listing, multiple_output_dir, hazard_output_folder, logdirs, chan, sent,
                   nbar, idx, sendi, count_local, count_all, assigned, ran, scratch, artifacts,
                   prjCopies, reported, finalized>>

\* Mutant of Mine: a comparison in place of the equality
MineUpTo(i, p) == i % P <= p

\* The test that distributes jobs cyclically to processors: i%P == p
Mine(i, p) == i % P = p

\* for i, file in enumerate(os.listdir(windfield_directory)): one iteration
\* up to the call of _run_scenario, or the end of the loop.
Loop(p) ==
    /\ pc[p] = "loop"
    /\ IF idx[p] >= N
       THEN /\ nbar' = [nbar EXCEPT ![p] = @ + 1]
            /\ pc' = [pc EXCEPT ![p] = "barrier_end"]
            /\ UNCHANGED <<idx, count_all, count_local, assigned>>
       ELSE /\ count_all' = [count_all EXCEPT ![p] = @ + 1]
            /\ UNCHANGED nbar
            /\ IF Mine(idx[p], p)
               THEN /\ assigned' = assigned \cup {<<idx[p], p>>}
                    /\ IF listing[idx[p] + 1]
                       THEN /\ count_local' = [count_local EXCEPT ![p] = @ + 1]
                            /\ pc' = [pc EXCEPT ![p] = "run"]
                            /\ UNCHANGED idx
                       ELSE /\ idx' = [idx EXCEPT ![p] = @ + 1]
                            /\ UNCHANGED <<count_local, pc>>
               ELSE /\ idx' = [idx EXCEPT ![p] = @ + 1]
                    /\ UNCHANGED <<count_local, assigned, pc>>
    /\ UNCHANGED <<nonSchedVars, pyparOK, eager, P, listing, multiple_output_dir, hazard_output_folder, logdirs, chan, sent,
                   sendi, ran, scratch, artifacts, prjCopies, wrote, reported, finalized>>

\* Mutant of ScratchDir: the rank is left out of the directory name
ScratchDirOfUnit(i, p) == <<"_run", i>>

\* aim.output_dir: named after dircomment + '_run%i_proc%i' % (i, p)
ScratchDir(i, p) == <<"_run", i, "_proc", p>>

\* aim = _run_scenario(params, ...): the engine run leaves its result in a
\* scratch output directory named after (i, p), or raises.
RunOk(p) ==
    /\ pc[p] = "run"
    /\ ran' = Append(ran, <<idx[p], p>>)
    /\ scratch' = scratch \cup {ScratchDir(idx[p], p)}
    /\ pc' = [pc EXCEPT ![p] = "collect"]
    /\ UNCHANGED <<nonSchedVars, pyparOK, eager, P, listing, multiple_output_dir, hazard_output_folder, logdirs, chan, sent,
                   nbar, idx, sendi, count_local, count_all, assigned, artifacts,
                   prjCopies, wrote, reported, finalized>>

RunFail(p) ==
    /\ pc[p] = "run"
    /\ ran' = Append(ran, <<idx[p], p>>)
    /\ pc' = [pc EXCEPT ![p] = "engine_failed"]
    /\ UNCHANGED <<nonSchedVars, pyparOK, eager, P, listing, multiple_output_dir, hazard_output_folder, logdirs, chan, sent,
                   nbar, idx, sendi, count_local, count_all, assigned, scratch, artifacts,
                   prjCopies, wrote, reported, finalized>>

\* Mutant of IsIndexZero: true of the first index of every rank
IsFirstRound(i) == i < P

\* if i == 0:
IsIndexZero(i) == i = 0

\* makedir(hazard_output_folder); chmod; cp <scratch>/<name>.res.nc
\*                                   <hazard_output_folder>/<name>.<windname>.res.nc
Collect(p) ==
    /\ pc[p] = "collect"
    /\ artifacts' = artifacts \cup {<<hazard_output_folder[p], idx[p]>>}
    /\ wrote' = wrote \cup {<<p, hazard_output_folder[p]>>}
    /\ pc' = [pc EXCEPT ![p] = IF IsIndexZero(idx[p]) THEN "prj" ELSE "cleanup"]
    /\ UNCHANGED <<nonSchedVars, pyparOK, eager, P, listing, multiple_output_dir, hazard_output_folder, logdirs, chan, sent,
                   nbar, idx, sendi, count_local, count_all, assigned, ran, scratch,
                   prjCopies, reported, finalized>>

\* if i == 0: cp <projection_file> <hazard_output_folder>/HazardMaps.res.prj
CopyPrj(p) ==
    /\ pc[p] = "prj"
    /\ prjCopies' = Append(prjCopies, <<hazard_output_folder[p], p>>)
    /\ pc' = [pc EXCEPT ![p] = "cleanup"]
    /\ UNCHANGED <<nonSchedVars, pyparOK, eager, P, listing, multiple_output_dir, hazard_output_folder, logdirs, chan, sent,
                   nbar, idx, sendi, count_local, count_all, assigned, ran, scratch, artifacts,
                   wrote, reported, finalized>>

\* /bin/rm -rf <aim.output_dir>; next iteration
Cleanup(p) ==
    /\ pc[p] = "cleanup"
    /\ scratch' = scratch \ {ScratchDir(idx[p], p)}
    /\ idx' = [idx EXCEPT ![p] = @ + 1]
    /\ pc' = [pc EXCEPT ![p] = "loop"]
    /\ UNCHANGED <<nonSchedVars, pyparOK, eager, P, listing, multiple_output_dir, hazard_output_folder, logdirs, chan, sent,
                   nbar, sendi, count_local, count_all, assigned, ran, artifacts, prjCopies,
                   wrote, reported, finalized>>

\* pypar.barrier(); if p == 0: print 'Parallel simulation finished ...'
BarrierEnd(p) ==
    /\ pc[p] = "barrier_end"
    /\ BarrierOpen(p)
    /\ reported' = [reported EXCEPT ![p] = IF p = 0 THEN count_all[p] ELSE @]
    /\ pc' = [pc EXCEPT ![p] = "finalize"]
    /\ UNCHANGED <<nonSchedVars, pyparOK, eager, P, listing, multiple_output_dir, hazard_output_folder, logdirs, chan, sent,
                   nbar, idx, sendi, count_local, count_all, assigned, ran, scratch, artifacts,
                   prjCopies, wrote, finalized>>

\* pypar.finalize()
Finalize(p) ==
    /\ pc[p] = "finalize"
    /\ finalized' = [finalized EXCEPT ![p] = TRUE]
    /\ pc' = [pc EXCEPT ![p] = "done"]
    /\ UNCHANGED <<nonSchedVars, pyparOK, eager, P, listing, multiple_output_dir, hazard_output_folder, logdirs, chan, sent,
                   nbar, idx, sendi, count_local, count_all, assigned, ran, scratch, artifacts,
                   prjCopies, wrote, reported>>

\* run_scenario is called again by the same process after the first call
\* has returned (the parameter loop of the module docstring): it builds a
\* new output directory name and enters run_multiple_windfields, where
\* import pypar finds the module already loaded.
Reenter(p) ==
    /\ pc[p] = "done"
    /\ finalized[p]
    /\ \E t \in Stamps :
          /\ multiple_output_dir' = [multiple_output_dir EXCEPT ![p] = t]
          /\ hazard_output_folder' = [hazard_output_folder EXCEPT ![p] = t]
    /\ pc' = [pc EXCEPT ![p] = "import_again"]
    /\ UNCHANGED <<nonSchedVars, pyparOK, eager, P, listing, logdirs, chan, sent, nbar, idx, sendi,
                   count_local, count_all, assigned, ran, scratch, artifacts, prjCopies,
                   wrote, reported, finalized>>

\* pypar.size(); pypar.rank(); pypar.barrier() on a finalized MPI: the MPI
\* library either aborts the process at the first call or lets the calls
\* through, and the process enters a barrier call.
MpiAfterFinalize(p) ==
    /\ pc[p] = "import_again"
    /\ \/ /\ pc' = [pc EXCEPT ![p] = "mpi_abort"]
          /\ UNCHANGED nbar
       \/ /\ nbar' = [nbar EXCEPT ![p] = @ + 1]
          /\ pc' = [pc EXCEPT ![p] = "barrier_after_finalize"]
    /\ UNCHANGED <<nonSchedVars, pyparOK, eager, P, listing, multiple_output_dir, hazard_output_folder, logdirs, chan, sent,
                   idx, sendi, count_local, count_all, assigned, ran, scratch, artifacts,
                   prjCopies, wrote, reported, finalized>>

\* The scheduler is not running (specifications of the other functions).
SchedIdle ==
    /\ pyparOK = FALSE
    /\ eager = TRUE
    /\ P = 1
    /\ listing = <<>>
    /\ multiple_output_dir = [r \in AllRanks |-> 0]
    /\ pc = [r \in AllRanks |-> "absent"]
    /\ hazard_output_folder = [r \in AllRanks |-> 0]
    /\ logdirs = {}
    /\ chan = [r \in AllRanks |-> <<>>]
    /\ sent = <<>>
    /\ nbar = [r \in AllRanks |-> 0]
    /\ idx = [r \in AllRanks |-> 0]
    /\ sendi = 0
    /\ count_local = [r \in AllRanks |-> 0]
    /\ count_all = [r \in AllRanks |-> 0]
    /\ assigned = {}
    /\ ran = <<>>
    /\ scratch = {}
    /\ artifacts = {}
    /\ prjCopies = <<>>
    /\ wrote = {}
    /\ reported = [r \in AllRanks |-> -1]
    /\ finalized = [r \in AllRanks |-> FALSE]

\* ------------------------------------------------------------------------
\* Wind profile files.  A line is the tuple of the integers it holds.
\* ------------------------------------------------------------------------
MaxFiles == 3      \* longest sequence of source files
MaxLayers == 2     \* largest layer count, declared or present

\* Time ranges a source file may record on line 3
TimeRanges == {<<0, 21600>>, <<3600, 7200>>}

\* A wind profile file: vent location, date, time range, layer count, data lines
MkFile(tag, rng, nl, nd) ==
    <<<<tag, tag + 1>>, <<tag + 10>>, rng, <<nl>>>> \o [j \in 1 .. nd |-> <<tag * 10 + j>>]

\* The contents the k-th source file may have (files differ in their data)
Files(k) == {MkFile(k, rng, nl, nd) : rng \in TimeRanges,
                                      nl \in 1 .. MaxLayers, nd \in 1 .. MaxLayers}

\* The file systems holding K source files, under the paths 1..K
RECURSIVE Disks(_)
Disks(K) ==
    IF K = 0 THEN {<<>>}
    ELSE {Append(d, f) : d \in Disks(K - 1), f \in Files(K)}

\* ------------------------------------------------------------------------
\* join_sorted_windprofiles
\* ------------------------------------------------------------------------
StitchIdle ==
    /\ disk = <<>>
    /\ wind_data_files = <<>>
    /\ outfile = <<>>
    /\ first_file = TRUE
    /\ seconds_start = -1
    /\ seconds_end = -1
    /\ num_layers = -1
    /\ sk = 0
    /\ spc = "idle"

\* Entry of join_sorted_windprofiles(wind_data_files, outfilename) on K files:
\* outfile = open(outfilename, 'w'); first_file = True
StitchInit ==
    /\ \E K \in 0 .. MaxFiles :
          /\ disk \in Disks(K)
          /\ wind_data_files = [k \in 1 .. K |-> k]
    /\ outfile = <<>>
    /\ first_file = TRUE
    /\ seconds_start = -1
    /\ seconds_end = -1
    /\ num_layers = -1
    /\ sk = 1
    /\ spc = "loop"

\* Mutant of DataLines: the slice starts one line early
DataLinesFromCount(lns) == SubSeq(lns, 4, Len(lns))

\* lines[4:]
DataLines(lns) == SubSeq(lns, 5, Len(lns))

\* num_layers as the loop body sees it: int(lines[3]) is read inside
\* "if first_file" only
LayersInEffect(lns) == IF first_file THEN lns[4][1] ELSE num_layers

\* assert len(lines[4:]) == num_layers
LayerAssert(lns) == Len(DataLines(lns)) = LayersInEffect(lns)

\* seconds_start, seconds_end as written for this block
StartInEffect(lns) == IF first_file THEN lns[3][1] ELSE seconds_start
EndInEffect(lns) == IF first_file THEN lns[3][2] ELSE seconds_end

\* Mutant of NextEnd: a one hour cadence
NextEndHourly(start) == start + 3600

\* seconds_end = seconds_start + 6*3600
NextEnd(start) == start + 6 * 3600

\* The header lines written before the assertion
BlockHead(lns) ==
    (IF first_file THEN <<lns[1], lns[2]>> ELSE <<>>)
        \o <<<<StartInEffect(lns), EndInEffect(lns)>>, <<LayersInEffect(lns)>>>>

\* One iteration of "for wind_data_file in wind_data_files"
StitchFile ==
    /\ spc = "loop"
    /\ sk <= Len(wind_data_files)
    /\ LET lns == disk[wind_data_files[sk]]
       IN  /\ num_layers' = LayersInEffect(lns)
           /\ IF LayerAssert(lns)
              THEN /\ outfile' = outfile \o BlockHead(lns) \o DataLines(lns)
                   /\ seconds_start' = EndInEffect(lns)
                   /\ seconds_end' = NextEnd(EndInEffect(lns))
                   /\ first_file' = FALSE
                   /\ sk' = sk + 1
                   /\ UNCHANGED spc
              ELSE /\ outfile' = outfile \o BlockHead(lns)
                   /\ seconds_start' = StartInEffect(lns)
                   /\ seconds_end' = EndInEffect(lns)
                   /\ spc' = "assert_failed"
                   /\ UNCHANGED <<first_file, sk>>
    /\ UNCHANGED <<schedVars, expandVars, dirVars, patchVars, disk, wind_data_files>>

\* outfile.close()
StitchClose ==
    /\ spc = "loop"
    /\ sk > Len(wind_data_files)
    /\ spc' = "done"
    /\ UNCHANGED <<schedVars, expandVars, dirVars, patchVars, disk, wind_data_files, outfile,
                   first_file, seconds_start, seconds_end, num_layers, sk>>

\* ------------------------------------------------------------------------
\* join_wind_profiles
\* ------------------------------------------------------------------------
MaxDir == 3        \* most entries of the wind field directory

\* A file name <<prefix, month, day, hour, extension>>: the base name ends
\* with the six digits month, day, hour.
DirNames == {<<pre, 9, d, h, e>> : pre \in {1, 2}, d \in {13, 14}, h \in {0, 6},
                                   e \in {"profile", "log"}}

Elems(s) == {s[i] : i \in DOMAIN s}

\* Sequences of at most n pairwise distinct elements of S
RECURSIVE DistinctSeqs(_, _)
DistinctSeqs(S, n) ==
    IF n = 0 THEN {<<>>}
    ELSE LET shorter == DistinctSeqs(S, n - 1)
         IN  shorter \cup UNION {{Append(s, x) : x \in S \ Elems(s)} :
                                    s \in {t \in shorter : Len(t) = n - 1}}

\* x.endswith('profile')
IsProfile(x) == x[5] = "profile"

\* Days of 2010 before the first of each month
DaysBefore == <<0, 31, 59, 90, 120, 151, 181, 212, 243, 273, 304, 334>>
Epoch2010 == 1262304000

\* int(time.mktime(time.strptime('2010-<month>-<date>T<hour>0000'))), in UTC
TimeStamp(x) == Epoch2010 + (DaysBefore[x[2]] + x[3] - 1) * 86400 + x[4] * 3600

\* The patched profile a file of the directory holds
ContentOf(x) == MkFile(x[1], <<x[4] * 3600, (x[4] + 6) * 3600>>, 1, 1)

DirIdle ==
    /\ dirlist = <<>>
    /\ seconds = <<>>
    /\ wind_data_dict = <<>>
    /\ jk = 0
    /\ jpc = "idle"

DirInit ==
    /\ dirlist \in DistinctSeqs(DirNames, MaxDir)
    /\ seconds = <<>>
    /\ wind_data_dict = <<>>
    /\ jk = 1
    /\ jpc = "scan"

\* wind_data_files[s] = x
DictPut(d, s, x) == [k \in (DOMAIN d) \cup {s} |-> IF k = s THEN x ELSE d[k]]

\* for x in os.listdir(windfield_directory): one iteration
JwpScan ==
    /\ jpc = "scan"
    /\ jk <= Len(dirlist)
    /\ LET x == dirlist[jk]
       IN  IF IsProfile(x)
           THEN /\ seconds' = Append(seconds, TimeStamp(x))
                /\ wind_data_dict' = DictPut(wind_data_dict, TimeStamp(x), x)
           ELSE UNCHANGED <<seconds, wind_data_dict>>
    /\ jk' = jk + 1
    /\ UNCHANGED <<schedVars, expandVars, stitchVars, patchVars, dirlist, jpc>>

\* seconds.sort(); wind_data_files = [wind_data_files[s] for s in seconds]
SortedFiles ==
    LET sorted == SortSeq(seconds, LAMBDA a, b : a < b)
    IN  [i \in 1 .. Len(sorted) |-> wind_data_dict[sorted[i]]]

\* The rest of join_wind_profiles: sort, build the list and the output name
\* (wind_data_files[0] raises on an empty list), enter join_sorted_windprofiles.
JwpSort ==
    /\ jpc = "scan"
    /\ jk > Len(dirlist)
    /\ IF SortedFiles = <<>>
       THEN /\ jpc' = "index_error"
            /\ UNCHANGED stitchVars
       ELSE /\ jpc' = "stitch"
            /\ wind_data_files' = SortedFiles
            /\ outfile' = <<>>
            /\ first_file' = TRUE
            /\ sk' = 1
            /\ spc' = "loop"
            /\ UNCHANGED <<disk, seconds_start, seconds_end, num_layers>>
    /\ UNCHANGED <<schedVars, expandVars, patchVars, dirlist, seconds, wind_data_dict, jk>>

\* ------------------------------------------------------------------------
\* set_vent_location_in_windfield
\* ------------------------------------------------------------------------
MaxSweep == 2                 \* longest tuple of a swept parameter
MaxLines == 4      \* longest patched file

PLines == {<<5, 6>>, <<7>>}      \* lines a file may hold
Coords == {1, 2}                 \* vent eastings and northings

PatchIdle ==
    /\ pfile = <<>>
    /\ pold = <<>>
    /\ pargs = <<0, 0>>
    /\ lines = <<>>
    /\ pbuf = <<>>
    /\ pk = 0
    /\ ppc = "idle"
    /\ pfunc = "none"
    /\ pname = <<"0", "0">>
    /\ ptime = <<0, 0>>

PatchInit ==
    /\ pfile \in SeqsUpTo(PLines, MaxLines)
    /\ pold = pfile
    /\ pargs \in Coords \X Coords
    /\ lines = <<>>
    /\ pbuf = <<>>
    /\ pk = 0
    /\ ppc = "read"
    /\ pfunc = "vent"
    /\ pname = <<"0", "0">>
    /\ ptime = <<0, 0>>

\* fid = open(filename); lines = fid.readlines(); fid.close()
PRead ==
    /\ ppc = "read"
    /\ lines' = pfile
    /\ ppc' = "replace"
    /\ UNCHANGED <<schedVars, expandVars, dirVars, stitchVars, pfile, pold, pargs, pbuf, pk, pfunc, pname, ptime>>

\* Mutant of ReplaceVent: the second line is replaced
ReplaceSecondLine(lns, e, n) ==
    [i \in 1 .. Len(lns) |-> IF i = 2 THEN <<e, n>> ELSE lns[i]]

\* The list after lines[0] = '%s %s\n' % (easting, northing)
ReplaceVent(lns, e, n) == [i \in 1 .. Len(lns) |-> IF i = 1 THEN <<e, n>> ELSE lns[i]]

\* lines[0] = ... raises IndexError on an empty file
PReplace ==
    /\ ppc = "replace"
    /\ pfunc = "vent"
    /\ IF lines = <<>>
       THEN /\ ppc' = "index_error"
            /\ UNCHANGED lines
       ELSE /\ lines' = ReplaceVent(lines, pargs[1], pargs[2])
            /\ ppc' = "open_w"
    /\ UNCHANGED <<schedVars, expandVars, dirVars, stitchVars, pfile, pold, pargs, pbuf, pk, pfunc, pname, ptime>>

\* The content of a file just opened with mode 'w'
Truncated(old) == <<>>

\* fid = open(filename, 'w') truncates the file
POpenW ==
    /\ ppc = "open_w"
    /\ pfile' = Truncated(pfile)
    /\ pbuf' = <<>>
    /\ pk' = 1
    /\ ppc' = "write"
    /\ UNCHANGED <<schedVars, expandVars, dirVars, stitchVars, pold, pargs, lines, pfunc, pname, ptime>>

\* for line in lines: fid.write(line)
PWrite ==
    /\ ppc = "write"
    /\ pk <= Len(lines)
    /\ pbuf' = Append(pbuf, lines[pk])
    /\ pk' = pk + 1
    /\ UNCHANGED <<schedVars, expandVars, dirVars, stitchVars, pfile, pold, pargs, lines, ppc, pfunc, pname, ptime>>

\* The buffer of fid may be flushed to the file at any time
PFlush ==
    /\ ppc = "write"
    /\ pbuf # <<>>
    /\ pfile' = pfile \o pbuf
    /\ pbuf' = <<>>
    /\ UNCHANGED <<schedVars, expandVars, dirVars, stitchVars, pold, pargs, lines, pk, ppc, pfunc, pname, ptime>>

\* fid.close()
PClose ==
    /\ ppc = "write"
    /\ pk > Len(lines)
    /\ pfile' = pfile \o pbuf
    /\ pbuf' = <<>>
    /\ ppc' = "done"
    /\ UNCHANGED <<schedVars, expandVars, dirVars, stitchVars, pold, pargs, lines, pk, pfunc, pname, ptime>>

\* ------------------------------------------------------------------------
\* set_timeblocks_in_windfield
\* ------------------------------------------------------------------------
\* Characters the base name of the file may end with
Chars == {"0", "1", "6", "-", "_"}

IsDigit(c) == c \in {"0", "1", "6"}
DigitVal(c) == CASE c = "0" -> 0 [] c = "1" -> 1 [] c = "6" -> 6

\* Mutant of ParsesAsInt: only the last character is looked at
ParsesLoosely(s) == IsDigit(s[2])

\* Does int(basename[-2:]) return (TRUE) or raise ValueError (FALSE)?
ParsesAsInt(s) == IsDigit(s[2]) /\ (IsDigit(s[1]) \/ s[1] = "-")

\* int(basename[-2:])
IntValue(s) ==
    IF IsDigit(s[1]) THEN 10 * DigitVal(s[1]) + DigitVal(s[2]) ELSE 0 - DigitVal(s[2])

\* Mutant of EndSec: the block ends six seconds, not six hours, later
EndSecNoHours(starthour) == starthour * 3600 + 6

\* startsec = starthour * 3600
StartSec(starthour) == starthour * 3600

\* endhour = starthour + 6; endsec = endhour * 3600
EndSec(starthour) == (starthour + 6) * 3600

\* Entry of either patcher function on one file
PatcherInit ==
    /\ pfile \in SeqsUpTo(PLines, MaxLines)
    /\ pold = pfile
    /\ lines = <<>>
    /\ pbuf = <<>>
    /\ pk = 0
    /\ ptime = <<0, 0>>
    /\ \/ /\ pfunc = "vent"
          /\ pargs \in Coords \X Coords
          /\ pname = <<"0", "0">>
          /\ ppc = "read"
       \/ /\ pfunc = "time"
          /\ pargs = <<0, 0>>
          /\ pname \in Chars \X Chars
          /\ ppc = "parse"

\* starthour = int(basename[-2:]); endhour, startsec, endsec
TParse ==
    /\ ppc = "parse"
    /\ IF ParsesAsInt(pname)
       THEN /\ ptime' = <<StartSec(IntValue(pname)), EndSec(IntValue(pname))>>
            /\ ppc' = "read"
       ELSE /\ ppc' = "value_error"
            /\ UNCHANGED ptime
    /\ UNCHANGED <<schedVars, expandVars, dirVars, stitchVars, pfile, pold, pargs, lines, pbuf, pk,
                   pfunc, pname>>

\* The list after lines[2] = '%i %i\n' % (startsec, endsec)
ReplaceTime(lns, s, e) == [i \in 1 .. Len(lns) |-> IF i = 3 THEN <<s, e>> ELSE lns[i]]

\* lines[2] = ... raises IndexError on a file of fewer than three lines
TReplace ==
    /\ ppc = "replace"
    /\ pfunc = "time"
    /\ IF Len(lines) < 3
       THEN /\ ppc' = "index_error"
            /\ UNCHANGED lines
       ELSE /\ lines' = ReplaceTime(lines, ptime[1], ptime[2])
            /\ ppc' = "open_w"
    /\ UNCHANGED <<schedVars, expandVars, dirVars, stitchVars, pfile, pold, pargs, pbuf, pk,
                   pfunc, pname, ptime>>

\* ------------------------------------------------------------------------
\* Parameter expander: _run_scenario calling run_scenario per tuple value
\* ------------------------------------------------------------------------
\* Names of the parameters that may carry a tuple
SweepNames == {"a", "b"}

\* Scalar values: the integers 1 and 2 and the string '1'
Scalars == {"int1", "int2", "str1"}

\* '%s' % value
Str(v) == CASE v = "int1" -> "1" [] v = "int2" -> "2" [] v = "str1" -> "1"

\* A parameter value is a scalar or a tuple of scalars
Scalar(v) == [tuple |-> FALSE, vals |-> <<v>>]
Tuple(vs) == [tuple |-> TRUE, vals |-> vs]
ParamValues == {Scalar(v) : v \in Scalars} \cup {Tuple(vs) : vs \in SeqsUpTo(Scalars, MaxSweep)}

\* Mutant of IsTuple: an empty tuple is taken for a scalar
IsNonEmptyTuple(v) == v.tuple /\ v.vals # <<>>

\* type(p) is tuple
IsTuple(v) == v.tuple

\* Mutant of Suffix: the value is left out of the comment
SuffixNameOnly(name, value) == <<"_", name>>

\* '_%s_%s' % (name, value)
Suffix(name, value) == <<"_", name, "_", Str(value)>>

\* params_unpacked = params.copy(); params_unpacked[name] = value
Unpacked(params, name, value) == [params EXCEPT ![name] = Scalar(value)]

\* Mutant of Aim: the model object gets a comment with a suffix of its own
AimSuffixed(params, dircomment) ==
    [params |-> params, dircomment |-> dircomment \o <<"_">>]

\* aim = AIM(params, dircomment=dircomment, ...)
Aim(params, dircomment) == [params |-> params, dircomment |-> dircomment]

\* A call of _run_scenario: name is the tuple parameter found by the scan of
\* params ("" before the scan), k the position of the loop over its values
Frame(params, dircomment) ==
    [params |-> params, dircomment |-> dircomment, name |-> "", k |-> 0]

Top == estack[Len(estack)]
Below == SubSeq(estack, 1, Len(estack) - 1)

ExpandIdle ==
    /\ einput = [n \in SweepNames |-> Scalar("int1")]
    /\ estack = <<>>
    /\ eruns = <<>>
    /\ epc = "idle"

\* run_scenario(params) with the default comment params['eruption_comment']
ExpandInit ==
    /\ einput \in [SweepNames -> ParamValues]
    /\ estack = <<Frame(einput, <<"comment">>)>>
    /\ eruns = <<>>
    /\ epc = "run"

\* for name in params: the scan stops at a tuple; the dict order decides
\* which one when there are several
ExpandScan ==
    /\ epc = "run" /\ estack # <<>>
    /\ Top.name = ""
    /\ \E name \in SweepNames :
          /\ IsTuple(Top.params[name])
          /\ estack' = Below \o <<[Top EXCEPT !.name = name, !.k = 1]>>
    /\ UNCHANGED <<schedVars, dirVars, stitchVars, patchVars, einput, eruns, epc>>

\* for value in p: run_scenario(params_unpacked, dircomment + suffix)
ExpandValue ==
    /\ epc = "run" /\ estack # <<>>
    /\ Top.name # ""
    /\ Top.k <= Len(Top.params[Top.name].vals)
    /\ LET value == Top.params[Top.name].vals[Top.k]
       IN estack' = Below \o <<[Top EXCEPT !.k = @ + 1],
                               Frame(Unpacked(Top.params, Top.name, value),
                                     Top.dircomment \o Suffix(Top.name, value))>>
    /\ UNCHANGED <<schedVars, dirVars, stitchVars, patchVars, einput, eruns, epc>>

\* the loop over the values is exhausted: return
ExpandReturn ==
    /\ epc = "run" /\ estack # <<>>
    /\ Top.name # ""
    /\ Top.k > Len(Top.params[Top.name].vals)
    /\ estack' = Below
    /\ epc' = IF Below = <<>> THEN "done" ELSE "run"
    /\ UNCHANGED <<schedVars, dirVars, stitchVars, patchVars, einput, eruns>>

\* no parameter is a tuple: instantiate the model object, run it, return it
ExpandAim ==
    /\ epc = "run" /\ estack # <<>>
    /\ Top.name = ""
    /\ \A name \in SweepNames : ~IsTuple(Top.params[name])
    /\ eruns' = Append(eruns, Aim(Top.params, Top.dircomment))
    /\ estack' = Below
    /\ epc' = IF Below = <<>> THEN "done" ELSE "run"
    /\ UNCHANGED <<schedVars, dirVars, stitchVars, patchVars, einput>>

\* ------------------------------------------------------------------------
\* run_multiple_windfields on a scenario that carries a sweep
\* ------------------------------------------------------------------------
\* Scenarios with a sweep: parameter a is a tuple, b a scalar or a tuple
SweepScenarios ==
    {m \in [SweepNames -> ParamValues] :
        m["a"].tuple /\ m["b"] \in {Scalar("int1"), Tuple(<<"int1", "int2">>)}}

SweepInit ==
    /\ einput \in SweepScenarios
    /\ estack = <<>>
    /\ eruns = <<>>
    /\ epc = "idle"

\* aim = _run_scenario(params, dircomment=dircomment + '_run%i_proc%i' % (i, p)):
\* the call enters the expander with the parameters of the scenario.  The
\* expansions of two ranks are independent; they are taken one at a time.
RunSweep(p) ==
    /\ pc[p] = "run"
    /\ epc = "idle"
    /\ ran' = Append(ran, <<idx[p], p>>)
    /\ estack' = <<Frame(einput, <<"comment", "_run%i_proc%i">>)>>
    /\ eruns' = <<>>
    /\ epc' = "run"
    /\ pc' = [pc EXCEPT ![p] = "expanding"]
    /\ UNCHANGED <<dirVars, stitchVars, patchVars, einput,
                   pyparOK, eager, P, listing, multiple_output_dir, hazard_output_folder, logdirs, chan, sent,
                   nbar, idx, sendi, count_local, count_all, assigned, scratch, artifacts,
                   prjCopies, wrote, reported, finalized>>

\* The expander returns None (line 240); makedir and chmod succeed and
\* aim.scenario_name at line 723 raises AttributeError.
SweepReturn(p) ==
    /\ pc[p] = "expanding"
    /\ epc = "done"
    /\ epc' = "idle"
    /\ wrote' = wrote \cup {<<p, hazard_output_folder[p]>>}
    /\ pc' = [pc EXCEPT ![p] = "attribute_error"]
    /\ UNCHANGED <<dirVars, stitchVars, patchVars, einput, estack, eruns,
                   pyparOK, eager, P, listing, multiple_output_dir, hazard_output_folder, logdirs, chan, sent,
                   nbar, idx, sendi, count_local, count_all, assigned, ran, scratch, artifacts,
                   prjCopies, reported, finalized>>

\* ------------------------------------------------------------------------
\* Specifications
\* ------------------------------------------------------------------------
\* run_scenario on a wind profile directory, on every rank of the group
Init == SchedInit /\ DirIdle /\ StitchIdle /\ PatchIdle /\ ExpandIdle

Next ==
    \/ \E p \in Ranks : RunScenario(p)
    \/ \E p \in Ranks : ImportPypar(p)
    \/ \E p \in Ranks : BarrierJoin(p)
    \/ \E p \in Ranks : Branch(p)
    \/ \E p \in Ranks : Send(p)
    \/ \E p \in Ranks : Receive(p)
    \/ \E p \in Ranks : BarrierStart(p)
    \/ \E p \in Ranks : StartLogging(p)
    \/ \E p \in Ranks : Loop(p)
    \/ \E p \in Ranks : RunOk(p)
    \/ \E p \in Ranks : RunFail(p)
    \/ \E p \in Ranks : Collect(p)
    \/ \E p \in Ranks : CopyPrj(p)
    \/ \E p \in Ranks : Cleanup(p)
    \/ \E p \in Ranks : BarrierEnd(p)
    \/ \E p \in Ranks : Finalize(p)

Spec == Init /\ [][Next]_vars

\* The steps of the process of rank p.  Every process of the group is an
\* operating system process of its own: one that can take a step is not
\* held back forever.
RankStep(p) ==
    \/ RunScenario(p) \/ ImportPypar(p) \/ BarrierJoin(p) \/ Branch(p) \/ Send(p)
    \/ Receive(p) \/ BarrierStart(p) \/ StartLogging(p) \/ Loop(p) \/ RunOk(p)
    \/ RunFail(p) \/ Collect(p) \/ CopyPrj(p) \/ Cleanup(p) \/ BarrierEnd(p)
    \/ Finalize(p)
SpecFair == Init /\ [][Next]_vars /\ \A p \in AllRanks : WF_vars(RankStep(p))

\* run_scenario called repeatedly on a wind-profile directory
NextRepeat ==
    \/ Next
    \/ \E p \in Ranks : Reenter(p)
    \/ \E p \in Ranks : MpiAfterFinalize(p)
SpecRepeat == Init /\ [][NextRepeat]_vars

\* run_scenario on a wind-profile directory with a scenario carrying a sweep
InitSweep == SchedInit /\ DirIdle /\ StitchIdle /\ PatchIdle /\ SweepInit
NextSweep ==
    \/ \E p \in Ranks : RunScenario(p)
    \/ \E p \in Ranks : ImportPypar(p)
    \/ \E p \in Ranks : BarrierJoin(p)
    \/ \E p \in Ranks : Branch(p)
    \/ \E p \in Ranks : Send(p)
    \/ \E p \in Ranks : Receive(p)
    \/ \E p \in Ranks : BarrierStart(p)
    \/ \E p \in Ranks : StartLogging(p)
    \/ \E p \in Ranks : Loop(p)
    \/ \E p \in Ranks : RunSweep(p)
    \/ ExpandScan
    \/ ExpandValue
    \/ ExpandReturn
    \/ ExpandAim
    \/ \E p \in Ranks : SweepReturn(p)
    \/ \E p \in Ranks : BarrierEnd(p)
    \/ \E p \in Ranks : Finalize(p)
SpecSweep == InitSweep /\ [][NextSweep]_vars

\* join_sorted_windprofiles on a sequence of source files
InitStitch == SchedIdle /\ DirIdle /\ StitchInit /\ PatchIdle /\ ExpandIdle
NextStitch == StitchFile \/ StitchClose
SpecStitch == InitStitch /\ [][NextStitch]_vars

\* join_wind_profiles on a directory
InitDir ==
    /\ SchedIdle /\ DirInit /\ PatchIdle /\ ExpandIdle
    /\ disk = [x \in Elems(dirlist) |-> ContentOf(x)]
    /\ wind_data_files = <<>>
    /\ outfile = <<>>
    /\ first_file = TRUE
    /\ seconds_start = -1
    /\ seconds_end = -1
    /\ num_layers = -1
    /\ sk = 0
    /\ spc = "idle"
NextDir == JwpScan \/ JwpSort \/ StitchFile \/ StitchClose
SpecDir == InitDir /\ [][NextDir]_vars

\* set_vent_location_in_windfield on one file
InitPatch == SchedIdle /\ DirIdle /\ StitchIdle /\ PatchInit /\ ExpandIdle
NextPatch == PRead \/ PReplace \/ POpenW \/ PWrite \/ PFlush \/ PClose
SpecPatch == InitPatch /\ [][NextPatch]_vars

\* set_vent_location_in_windfield or set_timeblocks_in_windfield on one file
InitPatcher == SchedIdle /\ DirIdle /\ StitchIdle /\ PatcherInit /\ ExpandIdle
NextPatcher ==
    TParse \/ PRead \/ PReplace \/ TReplace \/ POpenW \/ PWrite \/ PFlush \/ PClose
SpecPatcher == InitPatcher /\ [][NextPatcher]_vars

\* One outermost call of the expander on a parameter mapping
InitExpand == SchedIdle /\ DirIdle /\ StitchIdle /\ PatchIdle /\ ExpandInit
NextExpand == ExpandScan \/ ExpandValue \/ ExpandReturn \/ ExpandAim
SpecExpand == InitExpand /\ [][NextExpand]_vars

\* ------------------------------------------------------------------------
\* Properties of the scheduler
\* ------------------------------------------------------------------------
LoopDone(p) == pc[p] \in {"barrier_end", "finalize", "done"}

PastStartBarrier(p) ==
    pc[p] \in {"logging", "loop", "run", "collect", "prj", "cleanup", "engine_failed",
               "barrier_end", "finalize", "done"}

RanSet == {ran[k] : k \in DOMAIN ran}

\* C1: every index i of the listing is assigned to the rank i mod P and to no
\* other; a wind-field entry is never run twice, and once a rank has left its
\* loop every entry with i mod P = p has been assigned to it and, when it is a
\* .profile entry, run by it.
C1_CyclicPartition ==
    /\ \A a \in assigned : a[1] \in 0 .. (N - 1) /\ a[2] = a[1] % P
    /\ \A k \in DOMAIN ran : ran[k][2] = ran[k][1] % P /\ listing[ran[k][1] + 1]
    /\ \A j, k \in DOMAIN ran : ran[j][1] = ran[k][1] => j = k
    /\ \A p \in Ranks :
          LoopDone(p) =>
              \A i \in 0 .. (N - 1) :
                  i % P = p => /\ <<i, p>> \in assigned
                               /\ listing[i + 1] => <<i, p>> \in RanSet

\* C1 witness: 3 wind fields on 2 ranks, all done: rank 0 ran 0 and 2, rank 1 ran 1
C1_Witness ==
    /\ P = 2 /\ listing = <<TRUE, TRUE, TRUE>>
    /\ \A p \in Ranks : pc[p] = "done"
    /\ RanSet = {<<0, 0>>, <<1, 1>>, <<2, 0>>}

\* C2: once some rank has passed the start barrier, the shared output path of
\* every rank is the one rank 0 computed, and whatever any rank has written
\* was written below that path.
C2_SharedPathAgreed ==
    /\ (\E p \in Ranks : PastStartBarrier(p)) =>
           \A q \in Ranks : hazard_output_folder[q] = multiple_output_dir[0]
    /\ \A w \in wrote : w[2] = multiple_output_dir[0]

\* C2 witness: a rank whose own directory name differs from that of rank 0
\* has passed the start barrier and written
C2_Witness ==
    \E q \in Ranks :
        /\ q # 0
        /\ multiple_output_dir[q] # multiple_output_dir[0]
        /\ PastStartBarrier(q)
        /\ <<q, hazard_output_folder[q]>> \in wrote

\* C3: once the engine has failed on rank r, rank r stays failed (no retry, no
\* arrival at the end barrier), no message is sent, and no rank leaves the end
\* barrier, reports or finalizes.
C3_FailureBlocksGroup ==
    [][\A r \in Ranks :
          pc[r] = "engine_failed" =>
              /\ pc'[r] = "engine_failed"
              /\ nbar'[r] = nbar[r]
              /\ \A k \in DOMAIN ran' : k > Len(ran) => ran'[k][2] # r
              /\ sent' = sent /\ chan' = chan
              /\ \A q \in Ranks : /\ pc'[q] \notin {"finalize", "done"}
                                  /\ reported'[q] = -1
                                  /\ ~finalized'[q]]_vars

\* C3 witness: one rank has failed, another waits at the end barrier
C3_Witness ==
    \E r, q \in Ranks : pc[r] = "engine_failed" /\ pc[q] = "barrier_end"

\* C4: without pypar the single process runs to its end without error and
\* processes every wind-field entry.
C4_SequentialModeCompletes ==
    ~pyparOK =>
        /\ pc[0] # "name_error"
        /\ sent = <<>>
        /\ LoopDone(0) => \A i \in 0 .. (N - 1) : listing[i + 1] => <<i, 0>> \in RanSet

\* C5: rank 0 sends exactly once to each of the ranks 1..P-1 and to nobody
\* else; a rank other than 0 is past the receive only when it got the message;
\* nothing is left unreceived once the group has finalized.
C5_BroadcastExact ==
    /\ \A k \in DOMAIN sent : sent[k] \in 1 .. (P - 1)
    /\ \A j, k \in DOMAIN sent : sent[j] = sent[k] => j = k
    /\ pc[0] \in {"barrier_start"} \cup {"logging"} =>
           {sent[k] : k \in DOMAIN sent} = 1 .. (P - 1)
    /\ \A q \in Ranks : (q # 0 /\ nbar[q] >= 2) => q \in {sent[k] : k \in DOMAIN sent}
    /\ (\A q \in Ranks : finalized[q]) => \A q \in Ranks : chan[q] = <<>>

\* ------------------------------------------------------------------------
\* Properties of the stitcher
\* ------------------------------------------------------------------------
\* The blocks of an output, read back as the format prescribes: a time-range
\* line, a layer-count line, then as many data lines as the count says.
RECURSIVE ParseBlocks(_)
ParseBlocks(ls) ==
    IF ls = <<>> THEN <<>>
    ELSE IF Len(ls) < 2 \/ Len(ls[1]) # 2 \/ Len(ls[2]) # 1
         THEN <<[rng |-> <<-1, -1>>, nl |-> -1, data |-> <<>>]>>
    ELSE IF Len(ls) < 2 + ls[2][1]
         THEN <<[rng |-> <<-1, -1>>, nl |-> -1, data |-> <<>>]>>
    ELSE <<[rng |-> ls[1], nl |-> ls[2][1], data |-> SubSeq(ls, 3, 2 + ls[2][1])]>>
             \o ParseBlocks(SubSeq(ls, 3 + ls[2][1], Len(ls)))

OutBlocks == ParseBlocks(SubSeq(outfile, 3, Len(outfile)))
SourceFile(k) == disk[wind_data_files[k]]
StitchedAll == spc = "done" /\ Len(wind_data_files) >= 1

\* Does file k declare as many layers as it has data lines?
OwnCountMatches(k) == SourceFile(k)[4][1] = Len(SourceFile(k)) - 4

\* C6: on completion the output has K blocks; block 1 carries the time range of
\* line 3 of the first file, every later block (end of the block before, that
\* end + 21600).
C6_ContiguousRanges ==
    StitchedAll =>
        /\ Len(OutBlocks) = Len(wind_data_files)
        /\ OutBlocks[1].rng = SourceFile(1)[3]
        /\ \A k \in 2 .. Len(OutBlocks) :
              OutBlocks[k].rng = <<OutBlocks[k - 1].rng[2], OutBlocks[k - 1].rng[2] + 21600>>

\* C6 witness: three files stitched, the second and third recording a time
\* range of their own that is not the one written
C6_Witness ==
    /\ StitchedAll /\ Len(wind_data_files) = 3
    /\ SourceFile(2)[3] # OutBlocks[2].rng
    /\ SourceFile(3)[3] # OutBlocks[3].rng

\* C7: a file stops the stitcher exactly when its own declared layer count
\* differs from the number of its own data lines.
C7_OwnLayerCountChecked ==
    /\ \A k \in 1 .. Len(wind_data_files) : k < sk => OwnCountMatches(k)
    /\ spc = "assert_failed" => ~OwnCountMatches(sk)

\* C8: on completion the output is the first file's lines 1 and 2, then per
\* source file in order a time-range line, a layer-count line equal to the
\* number of data lines that follow, and the file's lines 5.. verbatim.
C8_OutputFormat ==
    StitchedAll =>
        /\ outfile[1] = SourceFile(1)[1]
        /\ outfile[2] = SourceFile(1)[2]
        /\ Len(OutBlocks) = Len(wind_data_files)
        /\ \A k \in 1 .. Len(OutBlocks) :
              /\ OutBlocks[k].data = SubSeq(SourceFile(k), 5, Len(SourceFile(k)))
              /\ OutBlocks[k].nl = Len(SourceFile(k)) - 4

\* C8 witness: two files of two layers with different vent lines stitched
C8_Witness ==
    /\ StitchedAll /\ Len(wind_data_files) >= 2
    /\ SourceFile(1)[1] # SourceFile(2)[1]
    /\ OutBlocks[1].nl = 2 /\ OutBlocks[2].nl = 2

\* C9: the stitcher gets every profile file of the directory exactly once, in
\* ascending order of time stamp.
C9_EveryProfileOnce ==
    jpc = "stitch" =>
        /\ Elems(wind_data_files) = {x \in Elems(dirlist) : IsProfile(x)}
        /\ \A i, j \in DOMAIN wind_data_files :
              /\ i # j => wind_data_files[i] # wind_data_files[j]
              /\ i < j => TimeStamp(wind_data_files[i]) <= TimeStamp(wind_data_files[j])

\* ------------------------------------------------------------------------
\* Properties of the patcher
\* ------------------------------------------------------------------------
\* C10: after set_vent_location_in_windfield the file has as many lines as
\* before, line 1 is "<easting> <northing>" and lines 2..n are unchanged.
C10_OnlyFirstLineChanged ==
    ppc = "done" =>
        /\ Len(pfile) = Len(pold)
        /\ pfile[1] = <<pargs[1], pargs[2]>>
        /\ \A i \in 2 .. Len(pold) : pfile[i] = pold[i]

\* C10 witness: a file of three lines patched, its first line changed
C10_Witness ==
    /\ ppc = "done" /\ Len(pold) = 3
    /\ pfile[1] # pold[1]
    /\ pold[2] # pold[3]

\* The two-character endings of a base name that Python's int() accepts
ValidHourSuffixes ==
    {<<a, b>> : a \in {"0", "1", "6", "-"}, b \in {"0", "1", "6"}}

\* The hour such an ending stands for
HourOf(sfx) ==
    CASE sfx = <<"0", "0">> -> 0   [] sfx = <<"0", "1">> -> 1   [] sfx = <<"0", "6">> -> 6
      [] sfx = <<"1", "0">> -> 10  [] sfx = <<"1", "1">> -> 11  [] sfx = <<"1", "6">> -> 16
      [] sfx = <<"6", "0">> -> 60  [] sfx = <<"6", "1">> -> 61  [] sfx = <<"6", "6">> -> 66
      [] sfx = <<"-", "0">> -> 0   [] sfx = <<"-", "1">> -> -1  [] sfx = <<"-", "6">> -> -6

\* C11: set_timeblocks_in_windfield on a name ending in an integer h leaves a
\* file of as many lines, whose line 3 is "<h*3600> <(h+6)*3600>" and whose
\* other lines are unchanged.
C11_TimeBlockFromName ==
    (pfunc = "time" /\ ppc = "done") =>
        /\ pname \in ValidHourSuffixes
        /\ Len(pfile) = Len(pold)
        /\ pfile[3] = <<HourOf(pname) * 3600, (HourOf(pname) + 6) * 3600>>
        /\ \A i \in 1 .. Len(pold) : i # 3 => pfile[i] = pold[i]

\* C11 witness: a name ending in 06 gives the block 21600 43200 on a 4 line file
C11_Witness ==
    /\ pfunc = "time" /\ ppc = "done"
    /\ pname = <<"0", "6">>
    /\ Len(pold) = 4
    /\ pfile[3] = <<21600, 43200>>
    /\ pfile[3] # pold[3]

\* C12: when the last two characters are no integer the call ends in a
\* ValueError and the file is what it was before the call.
C12_BadNameLeavesFile ==
    (pfunc = "time" /\ pname \notin ValidHourSuffixes) =>
        /\ ppc \in {"parse", "value_error"}
        /\ pfile = pold
        /\ pbuf = <<>>

\* C12 witness: the call has raised on a name ending in _6, the file holds lines
C12_Witness ==
    /\ pfunc = "time" /\ ppc = "value_error"
    /\ pname = <<"_", "6">>
    /\ pold # <<>>

\* C13: at every step of either patcher function an outside reader sees the
\* complete old or the complete new content, never an empty or partial file.
C13_OldOrNewOnly ==
    \/ pfile = pold
    \/ ppc \in {"write", "done"} /\ pfile = lines

\* ---- expander
TupleNames == {n \in SweepNames : einput[n].tuple}

\* A choice of one position in every tuple of the input
Choices == {f \in [TupleNames -> 1 .. MaxSweep] : \A n \in TupleNames : f[n] <= Len(einput[n].vals)}

\* The scalar mapping a choice stands for
Chosen(f) ==
    [n \in SweepNames |-> IF n \in TupleNames THEN Scalar(einput[n].vals[f[n]]) ELSE einput[n]]

RECURSIVE ProductOfLengths(_)
ProductOfLengths(S) ==
    IF S = {} THEN 1
    ELSE LET n == CHOOSE m \in S : TRUE
         IN Len(einput[n].vals) * ProductOfLengths(S \ {n})

RunsOf(params) == {i \in 1 .. Len(eruns) : eruns[i].params = params}

AllScalar == \A i \in 1 .. Len(eruns) : \A n \in SweepNames : ~eruns[i].params[n].tuple

\* The values of every tuple differ in their printed form
PrintedFormsDistinct ==
    \A n \in TupleNames : \A i, j \in 1 .. Len(einput[n].vals) :
        i # j => Str(einput[n].vals[i]) # Str(einput[n].vals[j])

CommentsDistinct ==
    \A i, j \in 1 .. Len(eruns) : i # j => eruns[i].dircomment # eruns[j].dircomment

C15_NoSweepOneRun ==
    (epc = "done" /\ TupleNames = {}) =>
        eruns = <<[params |-> einput, dircomment |-> <<"comment">>]>>

\* C15 witness: the one run of a mapping without tuples has been made
C15_Witness ==
    /\ epc = "done" /\ TupleNames = {}
    /\ Len(eruns) = 1
    /\ einput["a"] # einput["b"]

\* C16: a mapping holding an empty tuple gives no run and the call returns,
\* whatever other tuples the mapping holds; no call in progress on an empty
\* tuple starts a run.
C16_EmptySweepNoRuns ==
    /\ (\E n \in TupleNames : einput[n].vals = <<>>) => eruns = <<>>
    /\ (epc = "run" /\ Top.name # "" /\ Top.params[Top.name].vals = <<>>) => Top.k = 1

\* C16 witness: the call has returned without a run although the other
\* parameter carries a sweep of two values
C16_Witness ==
    /\ epc = "done" /\ eruns = <<>>
    /\ einput["a"] = Tuple(<<>>)
    /\ Len(einput["b"].vals) = 2 /\ einput["b"].tuple

\* ---- scheduler: outputs, report, finalize, scratch directories
AllPastEndBarrier == \A p \in Ranks : pc[p] \in {"finalize", "done"}

ProfileIndices == {i \in 0 .. (N - 1) : listing[i + 1]}

\* C17: once every rank is past the end barrier the shared output directory
\* holds one artifact per wind-field entry and nothing else, and the
\* projection file whenever a wind field was processed.
C17_ArtifactsAndProjection ==
    AllPastEndBarrier =>
        /\ artifacts = {<<hazard_output_folder[0], i>> : i \in ProfileIndices}
        /\ ran # <<>> => \E k \in DOMAIN prjCopies : prjCopies[k][1] = hazard_output_folder[0]

\* C18: only rank 0 reports, only when every rank has left its loop, and the
\* count it reports is the number of wind fields processed by the group.
C18_ReportCountsProcessed ==
    /\ \A p \in AllRanks : p # 0 => reported[p] = -1
    /\ reported[0] # -1 =>
          /\ \A q \in Ranks : LoopDone(q)
          /\ reported[0] = Cardinality(RanSet)
          /\ reported[0] = Cardinality(ProfileIndices)

\* C19: a process that has executed finalize enters no barrier, sends and
\* receives nothing from then on.
C19_NoCollectiveAfterFinalize ==
    [][\A p \in Ranks : finalized[p] =>
            /\ nbar'[p] = nbar[p]
            /\ chan'[p] = chan[p]
            /\ (p = 0 => sent' = sent)]_vars

Working(q) == pc[q] \in {"collect", "prj", "cleanup"}

\* C20: a scratch directory exists exactly while the rank that created it
\* works on its unit; it is still there when the artifact is copied and is
\* removed only after; names of different (unit, rank) pairs differ; a rank
\* at the end barrier has none left.
C20_ScratchOwnedAndRemoved ==
    /\ scratch = {ScratchDir(idx[q], q) : q \in {r \in Ranks : Working(r)}}
    /\ \A q \in Ranks : Working(q) =>
          /\ Mine(idx[q], q) /\ listing[idx[q] + 1]
          /\ \A r \in Ranks : (r # q /\ Working(r)) => idx[r] # idx[q]
    /\ \A q \in Ranks : pc[q] \in {"prj", "cleanup"} =>
          <<hazard_output_folder[q], idx[q]>> \in artifacts
    /\ Cardinality({ScratchDir(i, p) : i \in 0 .. (N - 1), p \in Ranks}) = N * P
    /\ \A d \in scratch : \A q \in Ranks :
          LoopDone(q) => \A i \in 0 .. (N - 1) : d # ScratchDir(i, q)

\* C20 witness: rank 0 waits at the end barrier after processing a unit,
\* rank 1 has copied the artifact of unit 1 and is about to delete its scratch
\* directory, the only one left
C20_Witness ==
    /\ P = 2
    /\ pc[0] = "barrier_end" /\ count_local[0] > 0
    /\ pc[1] = "cleanup"
    /\ scratch = {ScratchDir(1, 1)}

AtOrPastStartBarrier(q) == pc[q] = "barrier_start" \/ PastStartBarrier(q)

\* C21: a rank that is about to log, has logged or is processing finds every
\* rank arrived at the start barrier, and the log directory it writes into
\* has been created by rank 0.
C21_StartBarrierBeforeWork ==
    \A p \in Ranks : PastStartBarrier(p) =>
        /\ \A q \in Ranks : AtOrPastStartBarrier(q)
        /\ hazard_output_folder[p] \in logdirs
        /\ hazard_output_folder[p] = hazard_output_folder[0]

\* C21 witness: rank 1 has written its log while rank 0, arrived at the
\* start barrier, has not yet returned from it
C21_Witness ==
    /\ P = 2
    /\ pc[0] = "barrier_start"
    /\ pc[1] = "loop"
    /\ <<1, hazard_output_folder[1]>> \in wrote

\* C22: the projection file is copied at most once in a run, by rank 0 only,
\* and no two ranks are ever at the copy together.
C22_SingleProjectionCopy ==
    /\ Len(prjCopies) <= 1
    /\ \A k \in DOMAIN prjCopies : prjCopies[k][2] = 0
    /\ \A p \in Ranks : pc[p] = "prj" => p = 0 /\ idx[p] = 0 /\ prjCopies = <<>>

\* C22 witness: rank 0 has made the copy while rank 1 works on a unit of its own
C22_Witness ==
    /\ P = 2
    /\ prjCopies = <<<<hazard_output_folder[0], 0>>>>
    /\ pc[1] \in {"collect", "cleanup"}

\* C23: with a sweep in the scenario, a rank that has run a unit has run all
\* its combinations, and once the expansion is over the unit's artifact gets
\* copied and its scratch directory removed before the rank goes on to the
\* end barrier.
C23_SweepUnitsComplete ==
    /\ epc = "done" => Len(eruns) = ProductOfLengths(TupleNames) /\ AllScalar
    /\ \A k \in DOMAIN ran :
          \/ pc[ran[k][2]] \in {"expanding", "collect", "prj", "cleanup"} /\ idx[ran[k][2]] = ran[k][1]
          \/ /\ <<hazard_output_folder[ran[k][2]], ran[k][1]>> \in artifacts
             /\ pc[ran[k][2]] \in {"loop", "run", "expanding", "collect", "prj", "cleanup",
                                   "barrier_end", "finalize", "done"}

NoEngineFailure == \A p \in Ranks : pc[p] # "engine_failed"

\* C24: with pypar available and no engine failure every rank eventually
\* executes finalize, and the ranks have then passed the same number of
\* barriers.
C24_AllRanksFinalize ==
    /\ <>(~pyparOK \/ ~NoEngineFailure \/ \A p \in Ranks : finalized[p])
    /\ []((\A p \in Ranks : finalized[p]) => \A p, q \in Ranks : nbar[p] = nbar[q])

\* C25: the iteration that stops on a layer-count mismatch has written no
\* line of the failing block: the output is what it was before that file,
\* but for the two header lines when the failing file is the first.
C25_NoLineOfFailingBlock ==
    [][(spc = "loop" /\ spc' = "assert_failed") =>
          outfile' = outfile \o (IF first_file
                                 THEN <<SourceFile(sk)[1], SourceFile(sk)[2]>>
                                 ELSE <<>>)]_vars
====
